---- MODULE Spec2Model ----
(***************************************************************************)
(* A model of src/agentic_llm.py: the AgenticLLM pipeline (intent          *)
(* detection, context-conditioned generation, bounded conversation memory) *)
(* and its inspection surface (memory summary, statistics, clear).         *)
(*                                                                         *)
(* Text values are sequences of characters (one-character strings), so     *)
(* that str.strip(), str.lower() and "\n".join() are computed and not      *)
(* assumed.  A long literal of the source (a system prompt, an apology, a  *)
(* line prefix) is written as one indivisible symbol: no operation of the  *)
(* program looks inside it.                                                *)
(*                                                                         *)
(* The OpenAI client is the environment: every call of                     *)
(* client.chat.completions.create either raises, or returns a message      *)
(* whose content is None, or returns a message whose content is a text.    *)
(***************************************************************************)
EXTENDS Integers, Sequences, FiniteSets, TLC

VARIABLES
    maxlen,      \* self.memory.maxlen, fixed by __init__(memory_size)
    memory,      \* self.memory: the interactions held by the deque, oldest first
    op,          \* the method that ran last
    last_input,  \* the argument of the last process_input call
    result,      \* what the last process_input call returned (or that it raised)
    requests,    \* the provider exchanges of the last process_input call, in order
    appended,    \* history: every interaction stored since the last clear, in order
    view         \* the list a caller got from get_memory_summary: references to
                 \* the interaction dicts, each named by its position in appended
                 \* (0: a dict the store no longer holds)

vars == <<maxlen, memory, op, last_input, result, requests, appended, view>>

-----------------------------------------------------------------------------
(* Bounds of the model *)

MaxMemorySize == 3
MaxAppends == 4
MaxWideMemorySize == 4
MaxViewMemorySize == 2

-----------------------------------------------------------------------------
(* Text *)

Whitespace == {" ", "\n", "\t"}

UpperCase == <<"A", "B", "C", "D", "E", "F", "G", "H", "I", "J", "K", "L", "M",
               "N", "O", "P", "Q", "R", "S", "T", "U", "V", "W", "X", "Y", "Z">>

LowerCase == <<"a", "b", "c", "d", "e", "f", "g", "h", "i", "j", "k", "l", "m",
               "n", "o", "p", "q", "r", "s", "t", "u", "v", "w", "x", "y", "z">>

RECURSIVE LStrip(_)
LStrip(s) ==
    IF s # <<>> /\ Head(s) \in Whitespace THEN LStrip(Tail(s)) ELSE s

RECURSIVE RStrip(_)
RStrip(s) ==
    IF s # <<>> /\ s[Len(s)] \in Whitespace
    THEN RStrip(SubSeq(s, 1, Len(s) - 1))
    ELSE s

\* str.strip(): leading and trailing whitespace removed, the inside kept
Strip(s) == RStrip(LStrip(s))

LowerChar(c) ==
    IF \E i \in 1..26 : UpperCase[i] = c
    THEN LowerCase[CHOOSE i \in 1..26 : UpperCase[i] = c]
    ELSE c

\* str.lower()
Lower(s) == [i \in 1..Len(s) |-> LowerChar(s[i])]

RECURSIVE Join(_)
\* "\n".join(lines)
Join(lines) ==
    IF lines = <<>> THEN <<>>
    ELSE IF Len(lines) = 1 THEN lines[1]
    ELSE lines[1] \o <<"\n">> \o Join(Tail(lines))

-----------------------------------------------------------------------------
(* Literals of the source *)

FACTUAL == <<"f", "a", "c", "t", "u", "a", "l">>
CREATIVE == <<"c", "r", "e", "a", "t", "i", "v", "e">>
UNKNOWN == <<"u", "n", "k", "n", "o", "w", "n">>

NoPreviousConversation == <<"No previous conversation.">>
UserPrefix == <<"User: ">>
AssistantPrefix == <<"Assistant: ">>
InvalidInputMessage == <<"Please provide a valid input.">>
FactualApology ==
    <<"I apologize, but I encountered an error while processing your question. Please try again.">>
CreativeApology ==
    <<"I apologize, but I encountered an error while generating creative content. Please try again.">>

\* context_lines[-6:]
ContextWindowLines == 6

-----------------------------------------------------------------------------
(* The provider: what one call of client.chat.completions.create does *)

Raises == [status |-> "raises", content |-> <<>>]
ContentNone == [status |-> "none", content |-> <<>>]
Content(text) == [status |-> "text", content |-> text]

ClassifyOutcomes ==
    { Raises, ContentNone,
      Content(<<" ", "C", "r", "e", "a", "t", "i", "v", "e", "\n">>),
      Content(<<"F", "a", "c", "t", "u", "a", "l", "!", "!">>),
      Content(<<"F", "A", "C", "T", "U", "A", "L">>),
      Content(<<>>) }

GenerateOutcomes ==
    { Raises, ContentNone,
      Content(<<" ", "P", "a", "\n", "r", "i", "s", " ">>) }

\* process_input's arguments: the inputs it turns away, and those it processes
InvalidInputs == { <<>>, <<" ", "\t", " ">> }
ValidInputs == { <<" ", "a", " ", "b", "\n">> }

-----------------------------------------------------------------------------
(* What a method hands back: a value, or an exception that escapes it.     *)
(* requests are the provider exchanges the method made, in order.          *)

Returns(value, reqs) == [raised |-> FALSE, value |-> value, requests |-> reqs]
Escapes(reqs) == [raised |-> TRUE, value |-> <<>>, requests |-> reqs]

Request(system, context, user_input, outcome) ==
    [system |-> system, context |-> context, user_input |-> user_input,
     outcome |-> outcome]

-----------------------------------------------------------------------------
(* AgenticLLM *)

\* The two lines _get_context_string emits for one interaction
InteractionLines(interaction) ==
    << UserPrefix \o interaction.user_input,
       AssistantPrefix \o interaction.response >>

RECURSIVE AllContextLines(_)
\* context_lines after the loop over self.memory
AllContextLines(mem) ==
    IF mem = <<>> THEN <<>>
    ELSE InteractionLines(Head(mem)) \o AllContextLines(Tail(mem))

\* lines[-n:]
LastLines(lines, n) ==
    IF Len(lines) <= n THEN lines
    ELSE SubSeq(lines, Len(lines) - n + 1, Len(lines))

\* _get_context_string
GetContextString(mem) ==
    IF mem = <<>> THEN NoPreviousConversation
    ELSE Join(LastLines(AllContextLines(mem), ContextWindowLines))

\* _detect_intent without its except clause: a provider fault escapes
DetectIntentNoCatch(user_input, outcome) ==
    LET req == Request("intent_system_prompt", <<>>, user_input, outcome)
        intent == Lower(Strip(outcome.content))
    IN  IF outcome.status # "text" THEN Escapes(<<req>>)
        ELSE IF intent \notin {FACTUAL, CREATIVE} THEN Returns(FACTUAL, <<req>>)
        ELSE Returns(intent, <<req>>)

\* _detect_intent without .lower()
DetectIntentNoLower(user_input, outcome) ==
    LET req == Request("intent_system_prompt", <<>>, user_input, outcome)
        intent == Strip(outcome.content)
    IN  IF outcome.status # "text" THEN Returns(FACTUAL, <<req>>)
        ELSE IF intent \notin {FACTUAL, CREATIVE} THEN Returns(FACTUAL, <<req>>)
        ELSE Returns(intent, <<req>>)

\* _detect_intent without the validation of the provider's answer
DetectIntentNoValidate(user_input, outcome) ==
    LET req == Request("intent_system_prompt", <<>>, user_input, outcome)
        intent == Lower(Strip(outcome.content))
    IN  IF outcome.status # "text" THEN Returns(FACTUAL, <<req>>)
        ELSE Returns(intent, <<req>>)

\* _detect_intent: the whole body is inside try/except Exception
DetectIntent(user_input, outcome) ==
    LET req == Request("intent_system_prompt", <<>>, user_input, outcome)
        intent == Lower(Strip(outcome.content))
    IN  IF outcome.status = "raises" THEN Returns(FACTUAL, <<req>>)
        ELSE IF outcome.status = "none" THEN Returns(FACTUAL, <<req>>)
        ELSE IF intent \notin {FACTUAL, CREATIVE} THEN Returns(FACTUAL, <<req>>)
        ELSE Returns(intent, <<req>>)

\* _generate_factual_response repeating a failed request once
GenerateFactualResponseRetry(mem, user_input, outcome) ==
    LET context == GetContextString(mem)
        req == Request("factual_system_prompt", context, user_input, outcome)
    IN  IF outcome.status = "text"
        THEN Returns(Strip(outcome.content), <<req>>)
        ELSE Returns(FactualApology, <<req, req>>)

\* _generate_factual_response
GenerateFactualResponse(mem, user_input, outcome) ==
    LET context == GetContextString(mem)
        req == Request("factual_system_prompt", context, user_input, outcome)
    IN  IF outcome.status = "text"
        THEN Returns(Strip(outcome.content), <<req>>)
        ELSE Returns(FactualApology, <<req>>)

\* _generate_creative_response with the other generator's apology
GenerateCreativeResponseOtherApology(mem, user_input, outcome) ==
    LET context == GetContextString(mem)
        req == Request("creative_system_prompt", context, user_input, outcome)
    IN  IF outcome.status = "text"
        THEN Returns(Strip(outcome.content), <<req>>)
        ELSE Returns(FactualApology, <<req>>)

\* _generate_creative_response
GenerateCreativeResponse(mem, user_input, outcome) ==
    LET context == GetContextString(mem)
        req == Request("creative_system_prompt", context, user_input, outcome)
    IN  IF outcome.status = "text"
        THEN Returns(Strip(outcome.content), <<req>>)
        ELSE Returns(CreativeApology, <<req>>)

\* The interaction dict of _store_interaction. Its 'timestamp' (time.time())
\* is left out: no method reads it.
Interaction(user_input, response, intent) ==
    [user_input |-> user_input, response |-> response, intent |-> intent]

\* list.append(x): nothing is evicted
DequeAppendNoEvict(mem, cap, x) == Append(mem, x)

\* deque(maxlen=cap).append(x)
DequeAppend(mem, cap, x) ==
    IF cap = 0 THEN mem
    ELSE IF Len(mem) = cap THEN Append(Tail(mem), x)
    ELSE Append(mem, x)

\* _store_interaction
StoreInteraction(mem, cap, user_input, response, intent) ==
    DequeAppend(mem, cap, Interaction(user_input, response, intent))

\* get_memory_summary: list(self.memory)
GetMemorySummary(mem) == [i \in 1..Len(mem) |-> mem[i]]

CountIntent(mem, intent) ==
    Cardinality({i \in 1..Len(mem) : mem[i].intent = intent})

\* get_memory_stats
GetMemoryStats(mem, cap) ==
    IF mem = <<>>
    THEN [total_interactions |-> 0, factual_count |-> 0, creative_count |-> 0]
    ELSE [total_interactions |-> Len(mem),
          factual_count |-> CountIntent(mem, FACTUAL),
          creative_count |-> CountIntent(mem, CREATIVE),
          memory_capacity |-> cap]

\* process_input's test without the .strip(): not user_input
IsInvalidInputNoStrip(user_input) == user_input = <<>>

\* process_input's test: not user_input or not user_input.strip()
IsInvalidInput(user_input) == user_input = <<>> \/ Strip(user_input) = <<>>

\* The dict process_input returns
Result(user_input, intent, response) ==
    [raised |-> FALSE, user_input |-> user_input, intent |-> intent,
     response |-> response]

\* An exception leaving process_input
Raised == [raised |-> TRUE, user_input |-> <<>>, intent |-> <<>>, response |-> <<>>]

-----------------------------------------------------------------------------
(* The state machine *)

\* AgenticLLM.__init__(memory_size), memory_size drawn from sizes
Construct(sizes) ==
    /\ maxlen \in sizes
    /\ memory = <<>>
    /\ op = "init"
    /\ last_input = <<>>
    /\ result = Result(<<>>, <<>>, <<>>)
    /\ requests = <<>>
    /\ appended = <<>>
    /\ view = <<>>

\* process_input(user_input), the provider answering the intent request with
\* classify_outcome and the generation request with generate_outcome
ProcessInput(user_input, classify_outcome, generate_outcome) ==
    /\ op' = "process_input"
    /\ last_input' = user_input
    /\ UNCHANGED <<maxlen, view>>
    /\ IF IsInvalidInput(user_input)
       THEN /\ result' = Result(user_input, UNKNOWN, InvalidInputMessage)
            /\ requests' = <<>>
            /\ UNCHANGED <<memory, appended>>
       ELSE LET stripped == Strip(user_input)
                detect == DetectIntent(stripped, classify_outcome)
                intent == detect.value
                generate ==
                    IF intent = CREATIVE
                    THEN GenerateCreativeResponse(memory, stripped, generate_outcome)
                    ELSE GenerateFactualResponse(memory, stripped, generate_outcome)
                response == generate.value
            IN  /\ Len(appended) < MaxAppends
                /\ IF detect.raised
                   THEN /\ result' = Raised
                        /\ requests' = detect.requests
                        /\ UNCHANGED <<memory, appended>>
                   ELSE IF generate.raised
                   THEN /\ result' = Raised
                        /\ requests' = detect.requests \o generate.requests
                        /\ UNCHANGED <<memory, appended>>
                   ELSE /\ memory' = StoreInteraction(memory, maxlen, stripped,
                                                      response, intent)
                        /\ appended' = Append(appended,
                                              Interaction(stripped, response, intent))
                        /\ requests' = detect.requests \o generate.requests
                        /\ result' = Result(stripped, intent, response)

\* clear_memory
ClearMemory ==
    /\ op' = "clear_memory"
    /\ memory' = <<>>
    /\ appended' = <<>>
    /\ view' = [i \in 1..Len(view) |-> 0]
    /\ UNCHANGED <<maxlen, last_input, result, requests>>

\* get_memory_summary, the caller keeping the list it returns
GetMemorySummaryCall ==
    /\ op' = "get_memory_summary"
    /\ view' = [i \in 1..Len(GetMemorySummary(memory)) |->
                    Len(appended) - Len(memory) + i]
    /\ UNCHANGED <<maxlen, memory, last_input, result, requests, appended>>

\* Where the dict a reference names sits in self.memory (0: not in it)
PositionInMemory(ref) ==
    IF ref >= 1 /\ ref > Len(appended) - Len(memory)
    THEN ref - (Len(appended) - Len(memory))
    ELSE 0

\* The caller: del summary[0]
ViewDelete ==
    /\ view # <<>>
    /\ op' = "caller"
    /\ view' = Tail(view)
    /\ UNCHANGED <<maxlen, memory, last_input, result, requests, appended>>

\* The caller: summary.reverse()
ViewReverse ==
    /\ Len(view) >= 2
    /\ op' = "caller"
    /\ view' = [i \in 1..Len(view) |-> view[Len(view) + 1 - i]]
    /\ UNCHANGED <<maxlen, memory, last_input, result, requests, appended>>

\* The caller: summary.append({...}), a dict of its own
ViewAppend ==
    /\ Len(view) < MaxViewMemorySize
    /\ op' = "caller"
    /\ view' = Append(view, 0)
    /\ UNCHANGED <<maxlen, memory, last_input, result, requests, appended>>

\* The caller: summary[i][key] = value. list(self.memory) copies the deque,
\* not the dicts in it: the dict is the one the deque holds.
ViewSetItem(i, key, value) ==
    /\ i \in 1..Len(view)
    /\ op' = "caller"
    /\ LET pos == PositionInMemory(view[i])
       IN  memory' = IF pos = 0 THEN memory
                     ELSE [memory EXCEPT ![pos][key] = value]
    /\ UNCHANGED <<maxlen, view, last_input, result, requests, appended>>

-----------------------------------------------------------------------------
(* Specifications *)

Init == Construct(1..MaxMemorySize)

Next ==
    \/ \E user_input \in InvalidInputs : ProcessInput(user_input, Raises, Raises)
    \/ \E user_input \in ValidInputs, classify_outcome \in ClassifyOutcomes,
          generate_outcome \in GenerateOutcomes :
            ProcessInput(user_input, classify_outcome, generate_outcome)
    \/ ClearMemory

\* Any memory_size up to MaxMemorySize, any provider behaviour
Spec == Init /\ [][Next]_vars

\* The provider of the two narrower specifications: it classifies as asked
\* and either answers or fails
CreativeAnswer == Content(<<" ", "C", "r", "e", "a", "t", "i", "v", "e", "\n">>)
FewGenerateOutcomes == { Raises, Content(<<" ", "P", "a", "\n", "r", "i", "s", " ">>) }

InitWide == Construct(1..MaxWideMemorySize)

NextWide ==
    \/ \E user_input \in InvalidInputs : ProcessInput(user_input, Raises, Raises)
    \/ \E user_input \in ValidInputs, generate_outcome \in FewGenerateOutcomes :
            ProcessInput(user_input, CreativeAnswer, generate_outcome)
    \/ ClearMemory

\* Memory sizes beyond the default of 3
SpecWide == InitWide /\ [][NextWide]_vars

InitView == Construct(1..MaxViewMemorySize)

NextView ==
    \/ \E user_input \in ValidInputs :
            ProcessInput(user_input, CreativeAnswer, Raises)
    \/ ClearMemory
    \/ GetMemorySummaryCall
    \/ ViewDelete
    \/ ViewReverse
    \/ ViewAppend
    \/ \E i \in 1..MaxViewMemorySize :
          \/ ViewSetItem(i, "user_input", <<>>)
          \/ ViewSetItem(i, "response", <<"x">>)
          \/ ViewSetItem(i, "intent", UNKNOWN)

\* A caller that keeps and changes what get_memory_summary returned
SpecView == InitView /\ [][NextView]_vars

-----------------------------------------------------------------------------
(* Properties *)

Labels == {FACTUAL, CREATIVE}

IsText(v) == DOMAIN v = 1..Len(v) /\ \A i \in 1..Len(v) : v[i] \in STRING

Last(s) == s[Len(s)]

\* The last n elements of s, in order (all of s when it has fewer)
LastN(s, n) == IF Len(s) <= n THEN s ELSE SubSeq(s, Len(s) - n + 1, Len(s))

\* The step is a process_input call, on an input it processes / turns away
ProcessedStep == op' = "process_input" /\ Strip(last_input') # <<>>
RejectedStep == op' = "process_input" /\ Strip(last_input') = <<>>

\* The interaction the returned dict describes
Returned(r) == Interaction(r.user_input, r.response, r.intent)

\* mem, without its oldest record or with it, followed by the one record rec
GainsOne(mem_before, mem_after, rec) ==
    \E k \in {0, 1} :
        /\ k <= Len(mem_before)
        /\ mem_after = SubSeq(mem_before, 1 + k, Len(mem_before)) \o <<rec>>

\* C1: the memory never holds more than maxlen records, and it always holds
\* the last maxlen interactions stored since the last clear (all of them when
\* there are fewer), in the order they were stored: after M > maxlen appends
\* it holds exactly maxlen records, the last maxlen appended.
C1_BoundedFifo ==
    /\ Len(GetMemorySummary(memory)) <= maxlen
    /\ GetMemorySummary(memory) = LastN(appended, maxlen)
    /\ Len(appended) > maxlen => Len(GetMemorySummary(memory)) = maxlen

C1_Witness ==
    /\ maxlen >= 2
    /\ Len(appended) > maxlen
    /\ memory[1] # memory[2]
    /\ appended[1] # memory[1]

\* C2: a process_input call on a non-blank input returns, whatever the
\* provider did at the two requests: nothing is raised, the label is factual
\* or creative, the response is a text, the input is the trimmed input, and
\* the memory gains exactly one record, made of these three.
C2_ProcessDegrades ==
    [][ProcessedStep =>
          /\ ~result'.raised
          /\ result'.intent \in Labels
          /\ IsText(result'.response)
          /\ result'.user_input = Strip(last_input')
          /\ GainsOne(memory, memory', Returned(result'))]_vars

C2_Witness ==
    /\ op = "process_input"
    /\ Len(requests) = 2
    /\ requests[1].outcome = Raises
    /\ requests[2].outcome = ContentNone
    /\ ~result.raised
    /\ Len(memory) = maxlen
    /\ Last(memory) = Returned(result)

\* C3: the label of a processed call is factual or creative and nothing is
\* raised; it is the provider's answer trimmed and lower-cased when that is
\* 'factual' or 'creative', and 'factual' when the answer is anything else,
\* is missing, or the request failed.
C3_ClassifyClosed ==
    requests # <<>> =>
        LET outcome == requests[1].outcome
            normalized == Lower(Strip(outcome.content))
            in_domain == outcome.status = "text" /\ normalized \in Labels
        IN  /\ requests[1].system = "intent_system_prompt"
            /\ ~result.raised
            /\ result.intent \in Labels
            /\ in_domain => result.intent = normalized
            /\ ~in_domain => result.intent = FACTUAL
            /\ outcome = CreativeAnswer => result.intent = CREATIVE
            /\ outcome = Content(<<"F", "A", "C", "T", "U", "A", "L">>)
                  => result.intent = FACTUAL

C3_Witness ==
    /\ requests # <<>>
    /\ requests[1].outcome = Content(<<"F", "a", "c", "t", "u", "a", "l", "!", "!">>)
    /\ result.intent = FACTUAL

\* C4: when the generation request fails, the call returns the classifier's
\* label with the apology of the generator that label selects, and the memory
\* gains one record whose response is that apology.
C4_GenerationFailure ==
    [][(ProcessedStep /\ Len(requests') = 2
            /\ requests'[2].outcome.status = "raises") =>
          LET apology == IF result'.intent = CREATIVE THEN CreativeApology
                         ELSE FactualApology
              generator == IF result'.intent = CREATIVE
                           THEN "creative_system_prompt"
                           ELSE "factual_system_prompt"
          IN  /\ result'.intent \in Labels
              /\ result'.intent = DetectIntent(Strip(last_input'),
                                               requests'[1].outcome).value
              /\ requests'[2].system = generator
              /\ result'.response = apology
              /\ GainsOne(memory, memory',
                          Interaction(Strip(last_input'), apology, result'.intent))]_vars

C4_Witness ==
    /\ op = "process_input"
    /\ Len(requests) = 2
    /\ requests[2].outcome = Raises
    /\ result.intent = CREATIVE
    /\ result.response = CreativeApology
    /\ Last(memory).response = CreativeApology

\* C5: a process_input call on an empty or blank input returns 'unknown' with
\* the fixed message, leaves the memory as it was and makes no provider
\* request; no stored record has label 'unknown' or an empty input.
C5_InvalidInputFrame ==
    [][/\ RejectedStep =>
            /\ result' = Result(last_input', UNKNOWN, InvalidInputMessage)
            /\ memory' = memory
            /\ requests' = <<>>
       /\ \A i \in 1..Len(memory') :
            /\ memory'[i].intent # UNKNOWN
            /\ memory'[i].user_input # <<>>]_vars

C5_Witness ==
    /\ op = "process_input"
    /\ last_input = <<" ", "\t", " ">>
    /\ result.intent = UNKNOWN
    /\ requests = <<>>
    /\ Len(memory) = maxlen

\* The 2k lines of k records: input line then response line, record by record
LinesOf(mem) ==
    [j \in 1..(2 * Len(mem)) |->
        IF j % 2 = 1 THEN UserPrefix \o mem[(j + 1) \div 2].user_input
        ELSE AssistantPrefix \o mem[j \div 2].response]

\* C6: the rendered context is the sentinel when the memory is empty, and
\* otherwise the 2k lines of all k stored records, in insertion order.
C6_ContextCoversStore ==
    GetContextString(memory) =
        IF memory = <<>> THEN NoPreviousConversation ELSE Join(LinesOf(memory))

\* C7: the statistics always add up, and the total is the number of records
\* in the memory summary.
C7_StatsSum ==
    LET stats == GetMemoryStats(memory, maxlen)
    IN  /\ stats.total_interactions = stats.factual_count + stats.creative_count
        /\ stats.total_interactions = Len(GetMemorySummary(memory))

C7_Witness ==
    /\ \E i \in 1..Len(memory) : memory[i].intent = FACTUAL
    /\ \E i \in 1..Len(memory) : memory[i].intent = CREATIVE
    /\ GetMemoryStats(memory, maxlen).total_interactions = maxlen

\* C8: nothing a caller does to the list get_memory_summary returned, or to
\* a record in it, changes the memory.
C8_SummaryReadOnly == [][op' = "caller" => memory' = memory]_vars

\* C9: the statistics always hold all four values, the capacity being maxlen;
\* after clear_memory the total is 0.
C9_StatsFourValues ==
    LET stats == GetMemoryStats(memory, maxlen)
    IN  /\ DOMAIN stats = {"total_interactions", "factual_count",
                           "creative_count", "memory_capacity"}
        /\ stats.memory_capacity = maxlen
        /\ op = "clear_memory" => stats.total_interactions = 0

\* C10: a process_input call on a non-blank input makes exactly two provider
\* requests, the intent request and then one generation request, whose
\* context is the rendering of the memory as it was before the call, and then
\* stores one record; a failed request is not repeated. A call on a blank
\* input makes none.
C10_OneAttemptEach ==
    [][/\ ProcessedStep =>
            /\ Len(requests') = 2
            /\ requests'[1].system = "intent_system_prompt"
            /\ requests'[1].user_input = Strip(last_input')
            /\ requests'[2].system \in {"factual_system_prompt",
                                        "creative_system_prompt"}
            /\ requests'[2].user_input = Strip(last_input')
            /\ requests'[2].context = GetContextString(memory)
            /\ Len(appended') = Len(appended) + 1
            /\ GainsOne(memory, memory', Returned(result'))
       /\ RejectedStep => requests' = <<>>]_vars

C10_Witness ==
    /\ op = "process_input"
    /\ Len(requests) = 2
    /\ requests[1].outcome = Raises
    /\ requests[2].outcome = Raises
    /\ requests[2].context # NoPreviousConversation
    /\ Last(memory) = Returned(result)

====
